---- MODULE Spec2Model ----
(***************************************************************************)
(* Appointment booking core of the clinic site: the slot generator          *)
(* get_available_slots and the validator check_availability                 *)
(* (utils/booking_logic.py), and the handlers of app.py that write the      *)
(* appointment table (reservar, confirmar_cita).                            *)
(*                                                                          *)
(* Time.  A datetime is the number of minutes since 00:00 of the Monday of  *)
(* week 0; a date is a day number (0 = that Monday); a time of day is a     *)
(* number of minutes since 00:00.  An "HH:MM" string is the tuple           *)
(* <<h1, h2, ":", m1, m2>> of its characters (digits as numbers).           *)
(***************************************************************************)
EXTENDS Integers, Sequences, FiniteSets, TLC

VARIABLES
    user,            \* table User: the ids of the users with role 'doctor'
    work_schedule,   \* table WorkSchedule: sequence of rows, in id order
    appointment,     \* table Appointment: sequence of rows, in id order
    patient,         \* table Patient: the set of emails (unique column)
    req,             \* per in-flight POST /reservar request: its position and locals
    concurrent,      \* history: the requests that were in flight together with another
    last             \* the last call of a read-only function and what it returned

vars == <<user, work_schedule, appointment, patient, req, concurrent, last>>

-----------------------------------------------------------------------------
(* Bounds of the model *)

MaxAppts == 2          \* rows of the appointment table
NumRequests == 2       \* request slots of the web server (threads)

-----------------------------------------------------------------------------
(* Data model (models.py) *)

MinutesPerDay == 1440
NoDoctor == 0          \* Appointment.doctor_id is NULL
NoService == 0         \* an Appointment.service_id that matches no Service row

Pendiente == "pendiente_confirmacion"
Confirmada == "confirmada"
Completada == "completada"
Cancelada == "cancelada"
Statuses == {Pendiente, Confirmada, Completada, Cancelada}

\* Service.duration_minutes by Service.id, as seeded
Service == (1 :> 30) @@ (2 :> 45) @@ (3 :> 60)

\* User.id of the doctors seed() creates: dralina, drcarlos
Doctors == {1, 2}

\* one WorkSchedule row
ScheduleRow(doctor_id, day_of_week, start_time, end_time, is_active) ==
    [doctor_id |-> doctor_id, day_of_week |-> day_of_week,
     start_time |-> start_time, end_time |-> end_time, is_active |-> is_active]

\* one Appointment row; status defaults to pendiente_confirmacion
AppointmentRow(doctor_id, service_id, start_time, status, confirmation_token) ==
    [doctor_id |-> doctor_id, service_id |-> service_id, start_time |-> start_time,
     status |-> status, confirmation_token |-> confirmation_token]

StatusDefault == Pendiente

-----------------------------------------------------------------------------
(* datetime helpers *)

\* date.weekday(): 0 = Monday .. 6 = Sunday
weekday(date_obj) == date_obj % 7

\* datetime.combine(date, time)
combine(date_obj, time_of_day) == date_obj * MinutesPerDay + time_of_day

\* faulty variant: '%I:%M', the 12-hour clock
strftime12(dt) ==
    LET tod == dt % MinutesPerDay
        h == IF (tod \div 60) % 12 = 0 THEN 12 ELSE (tod \div 60) % 12
        m == tod % 60
    IN  <<h \div 10, h % 10, ":", m \div 10, m % 10>>

\* datetime.strftime('%H:%M'): 24-hour, zero-padded
strftime(dt) ==
    LET tod == dt % MinutesPerDay
        h == tod \div 60
        m == tod % 60
    IN  <<h \div 10, h % 10, ":", m \div 10, m % 10>>

\* datetime.strptime(f"{date_str}T{time_str}", '%Y-%m-%dT%H:%M')
strptime(date_obj, time_str) ==
    combine(date_obj, (time_str[1] * 10 + time_str[2]) * 60 + time_str[4] * 10 + time_str[5])

-----------------------------------------------------------------------------
(* utils/booking_logic.py *)

\* faulty variant: the filter forgets is_active
ScheduleFilterIgnoringActive(s, doctor_id, day_of_week) ==
    s.doctor_id = doctor_id /\ s.day_of_week = day_of_week

\* WorkSchedule.query.filter_by(doctor_id=, day_of_week=, is_active=True)
ScheduleFilter(s, doctor_id, day_of_week) ==
    s.doctor_id = doctor_id /\ s.day_of_week = day_of_week /\ s.is_active = TRUE

\* faulty variant: cancelled appointments are fetched too
AppointmentFilterKeepingCancelled(appt, doctor_id, start_work, end_work) ==
    /\ appt.doctor_id = doctor_id
    /\ appt.start_time >= start_work
    /\ appt.start_time < end_work

\* faulty variant: completed appointments are dropped like cancelled ones
AppointmentFilterDroppingCompleted(appt, doctor_id, start_work, end_work) ==
    /\ appt.doctor_id = doctor_id
    /\ appt.status \notin {Cancelada, Completada}
    /\ appt.start_time >= start_work
    /\ appt.start_time < end_work

\* faulty variant: the range is widened downwards, any earlier start is fetched
AppointmentFilterWidened(appt, doctor_id, start_work, end_work) ==
    /\ appt.doctor_id = doctor_id
    /\ appt.status # Cancelada
    /\ appt.start_time < end_work

\* faulty variant: appointments without a doctor count against every doctor
AppointmentFilterWithDoctorless(appt, doctor_id, start_work, end_work) ==
    /\ (appt.doctor_id = doctor_id \/ appt.doctor_id = NoDoctor)
    /\ appt.status # Cancelada
    /\ appt.start_time >= start_work
    /\ appt.start_time < end_work

\* faulty variant: only confirmed appointments are fetched
AppointmentFilterConfirmedOnly(appt, doctor_id, start_work, end_work) ==
    /\ appt.doctor_id = doctor_id
    /\ appt.status = Confirmada
    /\ appt.start_time >= start_work
    /\ appt.start_time < end_work

\* Appointment.query.filter(doctor_id ==, status != 'cancelada', start_time >=, start_time <)
AppointmentFilter(appt, doctor_id, start_work, end_work) ==
    /\ appt.doctor_id = doctor_id
    /\ appt.status # Cancelada
    /\ appt.start_time >= start_work
    /\ appt.start_time < end_work

\* faulty variant: the linked service's duration is ignored
ExistingDurationAlwaysDefault(appt) == 30

\* faulty variant: an appointment without service occupies no time
ExistingDurationNoDefault(appt) ==
    IF appt.service_id \in DOMAIN Service THEN Service[appt.service_id] ELSE 0

\* appt.service.duration_minutes if appt.service else 30
ExistingDuration(appt) ==
    IF appt.service_id \in DOMAIN Service THEN Service[appt.service_id] ELSE 30

\* faulty variant: closed intervals, touching counts as overlap
SolapaCerrado(proposed_start, proposed_end, appt_start, appt_end) ==
    (proposed_start <= appt_end) /\ (proposed_end >= appt_start)

\* (proposed_start < appt_end) and (proposed_end > appt.start_time)
Solapa(proposed_start, proposed_end, appt_start, appt_end) ==
    (proposed_start < appt_end) /\ (proposed_end > appt_start)

\* faulty variant: the loop runs while the candidate starts inside the window
LoopConditionStartOnly(current_time, service_duration, end_work) ==
    current_time < end_work

\* faulty variant: strict comparison, the slot that ends at end_work is lost
LoopConditionStrict(current_time, service_duration, end_work) ==
    current_time + service_duration < end_work

\* faulty variant: one more candidate is taken after the last one that fits
LoopConditionOneMore(current_time, service_duration, end_work) ==
    current_time <= end_work - service_duration + 15

\* while current_time + service_duration <= end_work
LoopCondition(current_time, service_duration, end_work) ==
    current_time + service_duration <= end_work

\* faulty variant: the next candidate is re-anchored by the service duration
NextCandidateByDuration(current_time, service_duration) ==
    current_time + service_duration

\* current_time += delta_15min
NextCandidate(current_time, service_duration) == current_time + 15

\* the for loop over the fetched appointments: is_free
IsFree(proposed_start, proposed_end, appointments) ==
    \A i \in 1..Len(appointments) :
        LET appt == appointments[i]
            existing_duration == ExistingDuration(appt)
            appt_end == appt.start_time + existing_duration
        IN  ~ Solapa(proposed_start, proposed_end, appt.start_time, appt_end)

\* the while loop of get_available_slots, from current_time on
RECURSIVE SlotLoop(_, _, _, _)
\* faulty variant: after a blocked candidate the loop goes on from the end of the
\* appointment that blocked it
SlotLoopReanchored(current_time, end_work, service_duration, appointments) ==
    IF LoopCondition(current_time, service_duration, end_work)
    THEN LET proposed_start == current_time
             proposed_end == current_time + service_duration
             blocking == {i \in 1..Len(appointments) :
                             Solapa(proposed_start, proposed_end,
                                    appointments[i].start_time,
                                    appointments[i].start_time
                                        + ExistingDuration(appointments[i]))}
             first == CHOOSE i \in blocking : \A j \in blocking : i <= j
         IN  IF blocking = {}
             THEN <<strftime(proposed_start)>>
                      \o SlotLoop(NextCandidate(current_time, service_duration),
                                  end_work, service_duration, appointments)
             ELSE SlotLoop(appointments[first].start_time
                               + ExistingDuration(appointments[first]),
                           end_work, service_duration, appointments)
    ELSE <<>>

SlotLoop(current_time, end_work, service_duration, appointments) ==
    IF LoopCondition(current_time, service_duration, end_work)
    THEN LET proposed_start == current_time
             proposed_end == current_time + service_duration
             here == IF IsFree(proposed_start, proposed_end, appointments)
                     THEN <<strftime(proposed_start)>>
                     ELSE <<>>
         IN  here \o SlotLoop(NextCandidate(current_time, service_duration),
                              end_work, service_duration, appointments)
    ELSE <<>>

get_available_slots(doctor_id, date_obj, duration_minutes) ==
    LET day_of_week == weekday(date_obj)
        schedule == SelectSeq(work_schedule,
                              LAMBDA s : ScheduleFilter(s, doctor_id, day_of_week))
    IN  IF schedule = <<>>
        THEN <<>>
        ELSE LET start_work == combine(date_obj, Head(schedule).start_time)
                 end_work == combine(date_obj, Head(schedule).end_time)
                 appointments ==
                     SelectSeq(appointment,
                               LAMBDA a : AppointmentFilter(a, doctor_id, start_work, end_work))
             IN  SlotLoop(start_work, end_work, duration_minutes, appointments)

\* faulty variant: only appointments that start inside the proposed interval are looked at
OverlappingFilterFromStart(appt, start_time, end_time) ==
    appt.status # Cancelada /\ appt.start_time >= start_time /\ appt.start_time < end_time

\* faulty variant: appointments without a doctor are left out
OverlappingFilterWithDoctor(appt, start_time, end_time) ==
    appt.status # Cancelada /\ appt.doctor_id # NoDoctor /\ appt.start_time < end_time

\* Appointment.query.filter(status != 'cancelada', start_time < end_time)
OverlappingFilter(appt, start_time, end_time) ==
    appt.status # Cancelada /\ appt.start_time < end_time

check_availability(service_id, start_time, duration_minutes) ==
    LET end_time == start_time + duration_minutes
        overlapping == SelectSeq(appointment,
                                 LAMBDA a : OverlappingFilter(a, start_time, end_time))
    IN  \A i \in 1..Len(overlapping) :
            LET appt == overlapping[i]
                existing_duration == ExistingDuration(appt)
                appt_end == appt.start_time + existing_duration
            IN  ~ (start_time < appt_end /\ end_time > appt.start_time)

\* generate_confirmation_token(email): the email signed under the confirmation salt
generate_confirmation_token(email) == <<"email-confirm-salt", email>>

-----------------------------------------------------------------------------
(* app.py: POST /reservar and GET /confirmar/<token> *)

R == 1..NumRequests

Emails == {"ana@example.com", "luz@example.com"}
FormDoctors == Doctors
FormServices == {1}
FormDates == {0}
FormTimes == {<<0, 9, ":", 0, 0>>, <<0, 9, ":", 1, 5>>}

\* request.form of a booking POST
Forms ==
    [email : Emails, service_id : FormServices, doctor_id : FormDoctors,
     date : FormDates, time : FormTimes]

NoForm == [email |-> "", service_id |-> NoService, doctor_id |-> NoDoctor,
           date |-> 0, time |-> <<0, 0, ":", 0, 0>>]

Idle == [pc |-> "idle", form |-> NoForm, patient |-> "-", outcome |-> "-"]

\* WorkSchedule rows written by seed(): Monday to Friday, 09:00 - 17:00, active
SeedSchedule ==
    [i \in 1..10 |->
        ScheduleRow(IF i <= 5 THEN 1 ELSE 2, (i - 1) % 5, 9 * 60, 17 * 60, TRUE)]

\* reservar, lines 62-86: the form is read, Service and Patient are queried, a new
\* Patient is added to the session when the email is unknown, the token is made
ReservarRead(r, form) ==
    /\ req[r].pc = "idle"
    /\ req' = [req EXCEPT ![r] =
                  [pc |-> "read", form |-> form,
                   patient |-> IF form.email \in patient THEN "found" ELSE "new",
                   outcome |-> "-"]]
    /\ concurrent' =
           IF \E o \in R \ {r} : req[o].pc = "read"
           THEN concurrent \cup {r} \cup {o \in R : req[o].pc = "read"}
           ELSE concurrent
    /\ UNCHANGED <<user, work_schedule, appointment, patient, last>>

\* reservar, lines 87-94: the Appointment is added and the session committed; the
\* commit raises IntegrityError (and writes nothing) when the session holds a new
\* Patient whose email another request has inserted meanwhile
ReservarCommit(r) ==
    /\ req[r].pc = "read"
    /\ LET form == req[r].form
           start_time == strptime(form.date, form.time)
           token == generate_confirmation_token(form.email)
           appt == AppointmentRow(form.doctor_id, form.service_id, start_time,
                                  StatusDefault, token)
       IN  IF req[r].patient = "new" /\ form.email \in patient
           THEN /\ req' = [req EXCEPT ![r].pc = "done", ![r].outcome = "IntegrityError"]
                /\ UNCHANGED <<appointment, patient>>
           ELSE /\ patient' = patient \cup {form.email}
                /\ appointment' = Append(appointment, appt)
                /\ req' = [req EXCEPT ![r].pc = "done", ![r].outcome = "success_booking"]
    /\ UNCHANGED <<user, work_schedule, concurrent, last>>

\* confirm_token(token): the email the token signs; "" stands for False, returned
\* when loads() raises: a signature that does not verify, or an age over 3600 s
\* (`expired`)
confirm_token(token, expired) ==
    IF expired \/ token[1] # "email-confirm-salt" THEN "" ELSE token[2]

\* the tokens a client sends: the ones issued, and one signed under another salt
Tokens ==
    {generate_confirmation_token(email) : email \in Emails}
    \cup {<<"another-salt", "ana@example.com">>}

\* faulty variant: the age of the token is not looked at
ConfirmarCitaIgnoringExpiry(token, expired) ==
    /\ LET email == confirm_token(token, FALSE)
           found == SelectSeq(appointment, LAMBDA a : a.confirmation_token = token)
           first == CHOOSE i \in 1..Len(appointment) :
                        /\ appointment[i].confirmation_token = token
                        /\ \A j \in 1..(i - 1) : appointment[j].confirmation_token # token
       IN  IF email # "" /\ found # <<>>
           THEN /\ appointment' = [appointment EXCEPT ![first].status = Confirmada]
                /\ last' = [op |-> "confirmar_cita", status |-> 200]
           ELSE /\ UNCHANGED appointment
                /\ last' = [op |-> "confirmar_cita", status |-> 400]
    /\ UNCHANGED <<user, work_schedule, patient, req, concurrent>>

\* confirmar_cita(token): the first appointment that carries the token is confirmed
\* and the answer is 200; otherwise "Token inválido o expirado.", 400
ConfirmarCita(token, expired) ==
    /\ LET email == confirm_token(token, expired)
           found == SelectSeq(appointment, LAMBDA a : a.confirmation_token = token)
           first == CHOOSE i \in 1..Len(appointment) :
                        /\ appointment[i].confirmation_token = token
                        /\ \A j \in 1..(i - 1) : appointment[j].confirmation_token # token
       IN  IF email # "" /\ found # <<>>
           THEN /\ appointment' = [appointment EXCEPT ![first].status = Confirmada]
                /\ last' = [op |-> "confirmar_cita", status |-> 200]
           ELSE /\ UNCHANGED appointment
                /\ last' = [op |-> "confirmar_cita", status |-> 400]
    /\ UNCHANGED <<user, work_schedule, patient, req, concurrent>>

Init ==
    /\ user = Doctors
    /\ work_schedule = SeedSchedule
    /\ appointment = <<>>
    /\ patient = {}
    /\ req = [r \in R |-> Idle]
    /\ concurrent = {}
    /\ last = [op |-> "none"]

Next ==
    \/ \E r \in R, form \in Forms : ReservarRead(r, form)
    \/ \E r \in R : ReservarCommit(r)
    \/ \E token \in Tokens, expired \in BOOLEAN : ConfirmarCita(token, expired)

Spec == Init /\ [][Next]_vars

-----------------------------------------------------------------------------
(* What the specification says, in its own terms *)

\* overlaps(startA, endA, startB, endB) over half-open intervals
SpecOverlaps(startA, endA, startB, endB) == startA < endB /\ endA > startB

\* the derived end_time of an appointment: the linked service's duration, 30 without one
SpecEndTime(a) ==
    a.start_time + (IF a.service_id \in DOMAIN Service THEN Service[a.service_id] ELSE 30)

-----------------------------------------------------------------------------
(* C1: no two distinct non-cancelled appointments of the same doctor have
   overlapping [start_time, end_time) intervals, in any state reached by booking
   requests and token confirmations. *)
NoOverlapInvariant ==
    \A i, j \in 1..Len(appointment) :
        LET A == appointment[i]
            B == appointment[j]
        IN  (/\ i # j
             /\ A.doctor_id = B.doctor_id
             /\ A.doctor_id # NoDoctor
             /\ A.status # Cancelada
             /\ B.status # Cancelada)
            => ~ SpecOverlaps(A.start_time, SpecEndTime(A), B.start_time, SpecEndTime(B))

(* C2: of two booking requests for the identical doctor, start time and service
   that were in flight together, exactly one ends with its Appointment inserted. *)
ExactlyOneConcurrentBookingSucceeds ==
    \A r1, r2 \in R :
        (/\ r1 # r2
         /\ {r1, r2} \subseteq concurrent
         /\ req[r1].pc = "done"
         /\ req[r2].pc = "done"
         /\ req[r1].form.doctor_id = req[r2].form.doctor_id
         /\ req[r1].form.service_id = req[r2].form.service_id
         /\ req[r1].form.date = req[r2].form.date
         /\ req[r1].form.time = req[r2].form.time)
        => (req[r1].outcome = "success_booking") # (req[r2].outcome = "success_booking")

(* C3: a booking request whose interval the validator finds overlapping an existing
   non-cancelled appointment is rejected, and the appointment table is unchanged. *)
OverlappingBookingRejected ==
    [][\A r \in R :
          (/\ req[r].pc = "read"
           /\ req'[r].pc = "done"
           /\ ~ check_availability(req[r].form.service_id,
                                   strptime(req[r].form.date, req[r].form.time),
                                   Service[req[r].form.service_id]))
          => (req'[r].outcome # "success_booking" /\ appointment' = appointment)]_vars

-----------------------------------------------------------------------------
(* The read-only functions applied to schedule and appointment tables drawn from
   bounded sets of rows *)

\* the row the drawn rows vary: doctor 1, 30-minute service, Monday 09:30, confirmed
BaseRow ==
    AppointmentRow(1, 1, combine(0, 9 * 60 + 30), Confirmada,
                   generate_confirmation_token("ana@example.com"))

\* starts: 08:45 (before the window), 09:00, 09:30, 09:40 (off the grid), Monday of
\* next week
InputStartTimes ==
    {combine(0, 8 * 60 + 45), combine(0, 9 * 60), combine(0, 9 * 60 + 30),
     combine(0, 9 * 60 + 40), combine(7, 9 * 60 + 30)}

\* BaseRow with one column changed: every doctor (and none), every status, linked
\* and dangling services, every start
AppointmentRows ==
    {[BaseRow EXCEPT !.doctor_id = d] : d \in Doctors \cup {NoDoctor}}
    \cup {[BaseRow EXCEPT !.status = st] : st \in Statuses}
    \cup {[BaseRow EXCEPT !.service_id = sv] : sv \in {1, 2, NoService}}
    \cup {[BaseRow EXCEPT !.start_time = t] : t \in InputStartTimes}

AppointmentTables == UNION {[1..n -> AppointmentRows] : n \in 0..MaxAppts}

\* doctor 2 works Monday 09:00-10:00; doctor 1 has no Monday row, or one that ends
\* at 09:30, 10:30 or 17:00 and is active or not
ScheduleTables ==
    {<<ScheduleRow(2, 0, 9 * 60, 10 * 60, TRUE)>>}
    \cup {<<ScheduleRow(2, 0, 9 * 60, 10 * 60, TRUE), ScheduleRow(1, 0, 9 * 60, e, act)>> :
             e \in {9 * 60 + 30, 10 * 60 + 30, 17 * 60}, act \in BOOLEAN}

CallDates == {0, 6, 7}
CallDurations == {30, 45}
CheckStarts == {combine(0, 9 * 60), combine(0, 9 * 60 + 15), combine(0, 10 * 60)}

\* faulty variant: available_slots outlives the call and keeps the earlier entries
CallGetAvailableSlotsAccumulating(doctor_id, date_obj, duration_minutes) ==
    /\ last' = [op |-> "get_available_slots", doctor_id |-> doctor_id,
                date_obj |-> date_obj, duration_minutes |-> duration_minutes,
                result |-> (IF last.op = "get_available_slots" THEN last.result ELSE <<>>)
                           \o get_available_slots(doctor_id, date_obj, duration_minutes)]
    /\ UNCHANGED <<user, work_schedule, appointment, patient, req, concurrent>>

\* a call of get_available_slots, as test_slots and api_get_slots make it
CallGetAvailableSlots(doctor_id, date_obj, duration_minutes) ==
    /\ last' = [op |-> "get_available_slots", doctor_id |-> doctor_id,
                date_obj |-> date_obj, duration_minutes |-> duration_minutes,
                result |-> get_available_slots(doctor_id, date_obj, duration_minutes)]
    /\ UNCHANGED <<user, work_schedule, appointment, patient, req, concurrent>>

\* a call of check_availability
CallCheckAvailability(service_id, start_time, duration_minutes) ==
    /\ last' = [op |-> "check_availability", service_id |-> service_id,
                start_time |-> start_time, duration_minutes |-> duration_minutes,
                result |-> check_availability(service_id, start_time, duration_minutes)]
    /\ UNCHANGED <<user, work_schedule, appointment, patient, req, concurrent>>

SlotsInit ==
    /\ user = Doctors
    /\ work_schedule \in ScheduleTables
    /\ appointment \in AppointmentTables
    /\ patient = {}
    /\ req = [r \in R |-> Idle]
    /\ concurrent = {}
    /\ last = [op |-> "none"]

SlotsNext ==
    \/ \E d \in Doctors, date \in CallDates, dur \in CallDurations :
           CallGetAvailableSlots(d, date, dur)
    \/ \E start \in CheckStarts, dur \in CallDurations :
           CallCheckAvailability(1, start, dur)

SpecSlots == SlotsInit /\ [][SlotsNext]_vars

-----------------------------------------------------------------------------
(* The last call of get_available_slots, read back as the specification describes it *)

\* "HH:MM" read back as minutes since 00:00
ParseHHMM(str) == (str[1] * 10 + str[2]) * 60 + str[4] * 10 + str[5]

\* two half-open intervals share at least one instant (glossary: overlap)
ShareInstant(startA, endA, startB, endB) ==
    \E m \in startA..(endA - 1) : startB <= m /\ m < endB

IsSlotsCall == last.op = "get_available_slots"
IsCheckCall == last.op = "check_availability"

\* the active WorkSchedule rows of the call's doctor for the call's weekday (Monday = 0)
ActiveRows ==
    {i \in 1..Len(work_schedule) :
        /\ work_schedule[i].doctor_id = last.doctor_id
        /\ work_schedule[i].day_of_week = last.date_obj % 7
        /\ work_schedule[i].is_active}

HasWindow == ActiveRows # {}
CallDay == last.date_obj * MinutesPerDay
StartWork == CallDay + work_schedule[CHOOSE i \in ActiveRows : TRUE].start_time
EndWork == CallDay + work_schedule[CHOOSE i \in ActiveRows : TRUE].end_time

\* the returned slots as datetimes of the call's date
SlotStart(i) == CallDay + ParseHHMM(last.result[i])
Returned == {SlotStart(i) : i \in 1..Len(last.result)}

\* the candidates: start_work + 15 k that end inside the window
Grid ==
    {t \in {StartWork + 15 * k : k \in 0..((EndWork - StartWork) \div 15)} :
        t + last.duration_minutes <= EndWork}

\* the doctor's appointments that start inside the window, whatever their status
InWindow ==
    {i \in 1..Len(appointment) :
        /\ appointment[i].doctor_id = last.doctor_id
        /\ StartWork <= appointment[i].start_time
        /\ appointment[i].start_time < EndWork}

\* the fetched appointments: those of InWindow that are not cancelled
Fetched == {i \in InWindow : appointment[i].status # Cancelada}

-----------------------------------------------------------------------------
(* C4: every slot get_available_slots returns starts at or after start_work and
   ends, duration_minutes later, at or before end_work of the doctor's active
   schedule for the weekday of the date. *)
WindowRespect ==
    IsSlotsCall =>
        \A i \in 1..Len(last.result) :
            /\ HasWindow
            /\ SlotStart(i) >= StartWork
            /\ SlotStart(i) + last.duration_minutes <= EndWork

\* a call that returned the slot at start_work and the slot ending at end_work,
\* with an appointment fetched
WindowRespectWitness ==
    /\ IsSlotsCall
    /\ HasWindow
    /\ Fetched # {}
    /\ StartWork \in Returned
    /\ (EndWork - last.duration_minutes) \in Returned

(* C5: a candidate on the 15-minute grid is returned if and only if, for every
   fetched appointment a, NOT (t < a_end AND t + duration > a.start_time), a_end
   taken from a's own service; a candidate that ends when an appointment starts,
   or starts when it ends, is not excluded by it. *)
FreeIffNoOverlap ==
    (IsSlotsCall /\ HasWindow) =>
        \A t \in Grid :
            /\ (t \in Returned) <=>
                   (\A i \in Fetched :
                       ~ (/\ t < SpecEndTime(appointment[i])
                          /\ t + last.duration_minutes > appointment[i].start_time))
            /\ \A i \in Fetched :
                   (Fetched = {i}
                    /\ (\/ t + last.duration_minutes = appointment[i].start_time
                        \/ t = SpecEndTime(appointment[i])))
                   => t \in Returned

\* one appointment, a slot ending at its start and a slot starting at its end are
\* returned, and a candidate crossing into it is not
FreeIffNoOverlapWitness ==
    /\ IsSlotsCall
    /\ HasWindow
    /\ \E i \in Fetched, t1, t2, t3 \in Grid :
           /\ t1 + last.duration_minutes = appointment[i].start_time
           /\ t1 \in Returned
           /\ t2 = SpecEndTime(appointment[i])
           /\ t2 \in Returned
           /\ t3 < appointment[i].start_time
           /\ t3 + last.duration_minutes > appointment[i].start_time
           /\ t3 \notin Returned

(* C6: with an active schedule and no non-cancelled appointment in the window, the
   result is exactly start_work + 15 k for every k >= 0 with
   start_work + 15 k + duration <= end_work, the one ending at end_work included,
   and is empty when the duration exceeds the window length. *)
EmptyDayFullGrid ==
    (IsSlotsCall /\ HasWindow /\ Fetched = {}) =>
        LET length == EndWork - StartWork
            n == IF last.duration_minutes > length
                 THEN 0
                 ELSE (length - last.duration_minutes) \div 15 + 1
        IN  /\ Len(last.result) = n
            /\ \A k \in 1..n : SlotStart(k) = StartWork + 15 * (k - 1)

\* Monday 09:00-17:00, 30 minutes, nothing booked: 09:00, 09:15, ..., 16:30
EmptyDayFullGridWitness ==
    /\ IsSlotsCall
    /\ HasWindow
    /\ Fetched = {}
    /\ last.duration_minutes = 30
    /\ StartWork = CallDay + 9 * 60
    /\ EndWork = CallDay + 17 * 60
    /\ Len(last.result) = 31
    /\ last.result[1] = <<0, 9, ":", 0, 0>>
    /\ last.result[2] = <<0, 9, ":", 1, 5>>
    /\ last.result[31] = <<1, 6, ":", 3, 0>>

(* C7: when the doctor has no WorkSchedule row with is_active = true for the weekday
   of the date (no row, or only an inactive one), get_available_slots returns the
   empty list, whatever appointments exist. *)
NonWorkingDay ==
    (IsSlotsCall /\ ~ HasWindow) => last.result = <<>>

\* the doctor has an inactive row for that weekday and a non-cancelled appointment
\* on that date
NonWorkingDayWitness ==
    /\ IsSlotsCall
    /\ ~ HasWindow
    /\ \E i \in 1..Len(work_schedule) :
           /\ work_schedule[i].doctor_id = last.doctor_id
           /\ work_schedule[i].day_of_week = last.date_obj % 7
           /\ ~ work_schedule[i].is_active
    /\ \E i \in 1..Len(appointment) :
           /\ appointment[i].doctor_id = last.doctor_id
           /\ appointment[i].status # Cancelada
           /\ appointment[i].start_time \div MinutesPerDay = last.date_obj

(* C8, as stated: each pair of consecutive slots of the returned list differs by
   exactly 15 minutes. *)
ConsecutiveSlotsDifferBy15 ==
    IsSlotsCall =>
        \A i \in 1..(Len(last.result) - 1) : SlotStart(i + 1) - SlotStart(i) = 15

(* C8, amended: each pair of consecutive slots differs by a positive whole multiple
   of 15 minutes, and every 15-minute candidate strictly between the two overlaps a
   fetched appointment; the difference is exactly 15 minutes when none does. *)
ConsecutiveSlotsOnGrid ==
    (IsSlotsCall /\ HasWindow) =>
        \A i \in 1..(Len(last.result) - 1) :
            LET gap == SlotStart(i + 1) - SlotStart(i)
            IN  /\ gap > 0
                /\ gap % 15 = 0
                /\ \A t \in Grid :
                       (SlotStart(i) < t /\ t < SlotStart(i + 1)) =>
                           \E j \in Fetched :
                               SpecOverlaps(t, t + last.duration_minutes,
                                            appointment[j].start_time,
                                            SpecEndTime(appointment[j]))

\* a returned list with two consecutive slots 15 minutes apart and two further apart
ConsecutiveSlotsOnGridWitness ==
    /\ IsSlotsCall
    /\ HasWindow
    /\ \E i, j \in 1..(Len(last.result) - 1) :
           /\ SlotStart(i + 1) - SlotStart(i) = 15
           /\ SlotStart(j + 1) - SlotStart(j) > 15

(* C9: cancelled is the only status left out of the overlap computation.  In
   get_available_slots (appointments of the doctor that start inside the window)
   and in check_availability (all appointments), an appointment that is
   pendiente_confirmacion, confirmada or completada excludes every candidate that
   shares an instant with it, and a cancelled one excludes none. *)
OnlyCancelledIsExcluded ==
    /\ (IsSlotsCall /\ HasWindow) =>
           /\ \A i \in InWindow :
                  appointment[i].status \in {Pendiente, Confirmada, Completada} =>
                      \A t \in Returned :
                          ~ ShareInstant(t, t + last.duration_minutes,
                                         appointment[i].start_time,
                                         SpecEndTime(appointment[i]))
           /\ \A t \in Grid :
                  (\A i \in InWindow :
                       ShareInstant(t, t + last.duration_minutes,
                                    appointment[i].start_time,
                                    SpecEndTime(appointment[i]))
                       => appointment[i].status = Cancelada)
                  => t \in Returned
    /\ IsCheckCall =>
           LET end_time == last.start_time + last.duration_minutes
               Hit(i) == ShareInstant(last.start_time, end_time,
                                      appointment[i].start_time,
                                      SpecEndTime(appointment[i]))
           IN  /\ (\E i \in 1..Len(appointment) :
                       /\ appointment[i].status \in {Pendiente, Confirmada, Completada}
                       /\ Hit(i))
                   => last.result = FALSE
               /\ (\A i \in 1..Len(appointment) :
                       Hit(i) => appointment[i].status = Cancelada)
                   => last.result = TRUE

\* a returned slot runs through a cancelled appointment of the doctor, and another
\* appointment, not cancelled, is fetched
OnlyCancelledIsExcludedWitness ==
    /\ IsSlotsCall
    /\ HasWindow
    /\ Fetched # {}
    /\ \E i \in InWindow, t \in Returned :
           /\ appointment[i].status = Cancelada
           /\ ShareInstant(t, t + last.duration_minutes,
                           appointment[i].start_time, SpecEndTime(appointment[i]))

\* the minutes an existing appointment occupies
OccupiedMinutes(a) ==
    IF a.service_id \in DOMAIN Service THEN Service[a.service_id] ELSE 30

(* C10: an existing appointment with no linked service occupies exactly 30 minutes
   from its start_time, and one with a linked service that service's
   duration_minutes, in get_available_slots and in check_availability alike. *)
DanglingServiceOccupies30 ==
    /\ (IsSlotsCall /\ HasWindow) =>
           \A i \in Fetched, t \in Grid :
               LET a == appointment[i]
                   a_end == a.start_time + OccupiedMinutes(a)
               IN  /\ (t < a_end /\ t + last.duration_minutes > a.start_time)
                       => t \notin Returned
                   /\ (/\ t >= a_end
                       /\ \A j \in Fetched \ {i} :
                              ~ SpecOverlaps(t, t + last.duration_minutes,
                                             appointment[j].start_time,
                                             appointment[j].start_time
                                                 + OccupiedMinutes(appointment[j])))
                       => t \in Returned
    /\ IsCheckCall =>
           (last.result = FALSE) <=>
               \E i \in 1..Len(appointment) :
                   LET a == appointment[i]
                   IN  /\ a.status # Cancelada
                       /\ SpecOverlaps(last.start_time,
                                       last.start_time + last.duration_minutes,
                                       a.start_time, a.start_time + OccupiedMinutes(a))

\* a fetched appointment without service: the candidate 15 minutes after its start
\* is not returned and the one 30 minutes after its start is
DanglingServiceOccupies30Witness ==
    /\ IsSlotsCall
    /\ HasWindow
    /\ \E i \in Fetched :
           /\ appointment[i].service_id \notin DOMAIN Service
           /\ (appointment[i].start_time + 15) \in Grid
           /\ (appointment[i].start_time + 15) \notin Returned
           /\ (appointment[i].start_time + 30) \in Returned

-----------------------------------------------------------------------------
\* the doctor's non-cancelled appointments that start before the window and end in it
PreWindow ==
    {i \in 1..Len(appointment) :
        /\ appointment[i].doctor_id = last.doctor_id
        /\ appointment[i].status # Cancelada
        /\ appointment[i].start_time < StartWork
        /\ SpecEndTime(appointment[i]) > StartWork}

\* no fetched appointment overlaps the candidate t
FreeOfFetched(t) ==
    \A j \in Fetched :
        ~ SpecOverlaps(t, t + last.duration_minutes,
                       appointment[j].start_time, SpecEndTime(appointment[j]))

(* C11: a non-cancelled appointment of the doctor that starts before start_work and
   ends after it is not among the appointments get_available_slots checks, so a
   candidate it overlaps is still returned when no fetched appointment blocks it,
   while check_availability reports that same interval, and any interval such an
   earlier appointment runs into, as unavailable. *)
StartsBeforeWindowNotFetched ==
    /\ (IsSlotsCall /\ HasWindow) =>
           \A i \in PreWindow, t \in Grid :
               (/\ SpecOverlaps(t, t + last.duration_minutes,
                                appointment[i].start_time, SpecEndTime(appointment[i]))
                /\ FreeOfFetched(t))
               => (/\ t \in Returned
                   /\ ~ check_availability(1, t, last.duration_minutes))
    /\ IsCheckCall =>
           \A i \in 1..Len(appointment) :
               (/\ appointment[i].status # Cancelada
                /\ appointment[i].start_time < last.start_time
                /\ SpecEndTime(appointment[i]) > last.start_time)
               => last.result = FALSE

\* an appointment 08:45-09:15 of the doctor, the window starts 09:00, and 09:00 is
\* returned
StartsBeforeWindowNotFetchedWitness ==
    /\ IsSlotsCall
    /\ HasWindow
    /\ \E i \in PreWindow :
           /\ StartWork \in Returned
           /\ SpecOverlaps(StartWork, StartWork + last.duration_minutes,
                           appointment[i].start_time, SpecEndTime(appointment[i]))

(* C12: a call of get_available_slots changes no row of any table, and a call with
   the same (doctor_id, date, duration) as the call before it, the tables being
   unchanged in between, returns the identical list. *)
SlotsCallReadOnlyDeterministic ==
    [][IsSlotsCall' =>
          /\ user' = user
          /\ work_schedule' = work_schedule
          /\ appointment' = appointment
          /\ patient' = patient
          /\ (/\ IsSlotsCall
              /\ last'.doctor_id = last.doctor_id
              /\ last'.date_obj = last.date_obj
              /\ last'.duration_minutes = last.duration_minutes)
             => last'.result = last.result]_vars

\* a call has returned slots computed around a fetched appointment; the same call
\* can be made again from this state
SlotsCallReadOnlyDeterministicWitness ==
    /\ IsSlotsCall
    /\ HasWindow
    /\ Fetched # {}
    /\ Len(last.result) >= 2

(* C13: the returned list is in strictly increasing time order without duplicates,
   and each entry is the 24-hour, zero-padded HH:MM of a free candidate start. *)
SlotsIncreasingHHMM ==
    IsSlotsCall =>
        /\ \A i \in 1..Len(last.result) :
               LET str == last.result[i]
               IN  /\ Len(str) = 5
                   /\ str[3] = ":"
                   /\ str[1] \in 0..2 /\ str[2] \in 0..9
                   /\ str[1] * 10 + str[2] <= 23
                   /\ str[4] \in 0..5 /\ str[5] \in 0..9
                   /\ HasWindow
                   /\ SlotStart(i) \in Grid
                   /\ FreeOfFetched(SlotStart(i))
        /\ \A i, j \in 1..Len(last.result) :
               i < j => ParseHHMM(last.result[i]) < ParseHHMM(last.result[j])

\* a list around a fetched appointment that runs from the morning past 13:00
SlotsIncreasingHHMMWitness ==
    /\ IsSlotsCall
    /\ HasWindow
    /\ Fetched # {}
    /\ \E i, j \in 1..Len(last.result) :
           /\ i < j
           /\ last.result[i] = <<0, 9, ":", 0, 0>>
           /\ last.result[j] = <<1, 3, ":", 0, 0>>

(* C15: check_availability returns False if and only if some non-cancelled
   appointment, of whichever doctor or of none, has a [start, end) interval that
   overlaps [start_time, start_time + duration); it returns True otherwise. *)
ValidatorChecksGlobally ==
    IsCheckCall =>
        LET Blocks(i) ==
                /\ appointment[i].status # Cancelada
                /\ SpecOverlaps(last.start_time, last.start_time + last.duration_minutes,
                                appointment[i].start_time, SpecEndTime(appointment[i]))
        IN  /\ last.result \in BOOLEAN
            /\ \A d \in Doctors \cup {NoDoctor} :
                   (\E i \in 1..Len(appointment) :
                        appointment[i].doctor_id = d /\ Blocks(i))
                   => last.result = FALSE
            /\ (\A i \in 1..Len(appointment) : ~ Blocks(i)) => last.result = TRUE

\* the interval is refused and the only appointment in its way has no doctor
ValidatorChecksGloballyWitness ==
    /\ IsCheckCall
    /\ last.result = FALSE
    /\ \E i \in 1..Len(appointment) :
           /\ appointment[i].doctor_id = NoDoctor
           /\ appointment[i].status # Cancelada
           /\ SpecOverlaps(last.start_time, last.start_time + last.duration_minutes,
                           appointment[i].start_time, SpecEndTime(appointment[i]))
    /\ \A i \in 1..Len(appointment) : appointment[i].doctor_id = NoDoctor

-----------------------------------------------------------------------------
(* get_available_slots run one loop iteration at a time.  While the call is running
   `last` holds its local variables; `considered` is the candidate the latest
   iteration tested (none before the first iteration). *)

\* lines 15-45: the schedule lookup, the early return, the appointment query and the
\* loop variables
LoopBegin(doctor_id, date_obj, duration_minutes) ==
    /\ last.op # "loop"
    /\ LET day_of_week == weekday(date_obj)
           schedule == SelectSeq(work_schedule,
                                 LAMBDA s : ScheduleFilter(s, doctor_id, day_of_week))
       IN  IF schedule = <<>>
           THEN last' = [op |-> "get_available_slots", doctor_id |-> doctor_id,
                         date_obj |-> date_obj, duration_minutes |-> duration_minutes,
                         result |-> <<>>]
           ELSE LET start_work == combine(date_obj, Head(schedule).start_time)
                    end_work == combine(date_obj, Head(schedule).end_time)
                IN  last' = [op |-> "loop", doctor_id |-> doctor_id,
                             date_obj |-> date_obj,
                             duration_minutes |-> duration_minutes,
                             start_work |-> start_work, end_work |-> end_work,
                             appointments |->
                                 SelectSeq(appointment,
                                           LAMBDA a : AppointmentFilter(a, doctor_id,
                                                                        start_work, end_work)),
                             available_slots |-> <<>>,
                             current_time |-> start_work,
                             considered |-> <<>>]
    /\ UNCHANGED <<user, work_schedule, appointment, patient, req, concurrent>>

\* lines 47-70: one pass through the body of the while loop
LoopIterate ==
    /\ last.op = "loop"
    /\ LoopCondition(last.current_time, last.duration_minutes, last.end_work)
    /\ LET proposed_start == last.current_time
           proposed_end == last.current_time + last.duration_minutes
           is_free == IsFree(proposed_start, proposed_end, last.appointments)
       IN  last' = [last EXCEPT
                        !.available_slots =
                            IF is_free THEN Append(@, strftime(proposed_start)) ELSE @,
                        !.current_time = NextCandidate(@, last.duration_minutes),
                        !.considered = <<proposed_start>>]
    /\ UNCHANGED <<user, work_schedule, appointment, patient, req, concurrent>>

\* lines 47 and 72: the loop condition fails and the list is returned
LoopExit ==
    /\ last.op = "loop"
    /\ ~ LoopCondition(last.current_time, last.duration_minutes, last.end_work)
    /\ last' = [op |-> "get_available_slots", doctor_id |-> last.doctor_id,
                date_obj |-> last.date_obj,
                duration_minutes |-> last.duration_minutes,
                result |-> last.available_slots]
    /\ UNCHANGED <<user, work_schedule, appointment, patient, req, concurrent>>

LoopNext ==
    \/ \E d \in Doctors, date \in CallDates, dur \in CallDurations :
           LoopBegin(d, date, dur)
    \/ LoopIterate
    \/ LoopExit

\* a call that has started keeps running: the loop is sequential code
SpecLoop ==
    /\ SlotsInit
    /\ [][LoopNext]_vars
    /\ WF_vars(LoopIterate)
    /\ WF_vars(LoopExit)

InLoop == last.op = "loop"

\* what holds of the candidates while the loop runs
LoopWithinWindow ==
    InLoop =>
        /\ \A i \in 1..Len(last.considered) :
               /\ last.considered[i] + last.duration_minutes <= last.end_work
               /\ last.considered[i] >= last.start_work
               /\ last.current_time = last.considered[i] + 15
        /\ last.considered = <<>> => last.current_time = last.start_work
        /\ \A i \in 1..Len(last.available_slots) :
               LET t == combine(last.date_obj, 0) + ParseHHMM(last.available_slots[i])
               IN  t >= last.start_work /\ t + last.duration_minutes <= last.end_work

\* the loop is left exactly at the first candidate that runs past end_work, and the
\* list returned is the one the whole call computes
LoopStopsAtFirstOverrun ==
    (InLoop /\ ~ InLoop') =>
        /\ last.current_time + last.duration_minutes > last.end_work
        /\ last'.result = last.available_slots
        /\ last'.result = get_available_slots(last.doctor_id, last.date_obj,
                                              last.duration_minutes)

(* C14: the candidate loop terminates for every active schedule, appointment set
   and positive duration: a running call always returns; the loop stops the first
   time proposed_end > end_work; no candidate with proposed_end > end_work is
   tested or emitted; the last candidate considered fits inside the window. *)
LoopTerminates ==
    /\ []LoopWithinWindow
    /\ [][LoopStopsAtFirstOverrun]_vars
    /\ InLoop ~> (last.op = "get_available_slots")

\* a call that tested candidates, emitted some and skipped one, and has returned with
\* the last candidate ending exactly at end_work
LoopTerminatesWitness ==
    /\ IsSlotsCall
    /\ HasWindow
    /\ Fetched # {}
    /\ Len(last.result) >= 2
    /\ \E i \in 1..Len(last.result) :
           SlotStart(i) + last.duration_minutes = EndWork

-----------------------------------------------------------------------------
(* The booking and confirmation handlers over a database that already holds an
   appointment: the status column takes the values the model's comment and the
   queries name, whoever wrote them. *)

\* a stored appointment of each status, booked by each patient
StatusRows ==
    {[BaseRow EXCEPT !.status = st,
                     !.confirmation_token = generate_confirmation_token(email)] :
         st \in Statuses, email \in Emails}

StatusTables == {<<>>} \cup {<<row>> : row \in StatusRows}

StatusInit ==
    /\ user = Doctors
    /\ work_schedule = SeedSchedule
    /\ appointment \in StatusTables
    /\ patient = {email \in Emails :
                     \E i \in 1..Len(appointment) :
                         appointment[i].confirmation_token =
                             generate_confirmation_token(email)}
    /\ req = [r \in R |-> Idle]
    /\ concurrent = {}
    /\ last = [op |-> "none"]

SpecStatus == StatusInit /\ [][Next]_vars

(* C16: cancelled is absorbing: once an appointment's status is cancelled, no
   operation (in particular confirmar_cita) changes its status again. *)
CancelledIsAbsorbing ==
    [][\A i \in 1..Len(appointment) :
           appointment[i].status = Cancelada => appointment'[i].status = Cancelada]_vars

(* C17: every appointment a booking request inserts starts in
   pendiente_confirmacion, and an appointment only becomes confirmada from
   pendiente_confirmacion (a completed one is never moved back to confirmada). *)
StatusStateMachine ==
    [][/\ \A i \in (Len(appointment) + 1)..Len(appointment') :
              appointment'[i].status = Pendiente
       /\ \A i \in 1..Len(appointment) :
              (appointment[i].status # Confirmada /\ appointment'[i].status = Confirmada)
              => appointment[i].status = Pendiente]_vars

-----------------------------------------------------------------------------
(* POST /api/slots.  A JSON value of the request body is a tagged tuple: <<"None">>
   for an absent key, <<"str", format, day>> for a string written in `format` that
   names the day `day`, <<"int", n>> for a number.  Ids are numbers, 0 when absent. *)

NoDate == <<"None">>

\* the date values a client sends: absent, 2024-01-01 style for a Monday and a
\* Sunday, 01/01/2024 style, and the number 20240101
DateValues ==
    {NoDate, <<"str", "%Y-%m-%d", 0>>, <<"str", "%Y-%m-%d", 6>>,
     <<"str", "%d/%m/%Y", 0>>, <<"int", 20240101>>}

\* doctor 99 and service 99 are in no table
RequestBodies ==
    [doctor_id : {NoDoctor, 1, 99}, service_id : {NoService, 1, 99}, date : DateValues]

\* datetime.strptime(date_str, '%Y-%m-%d').date(): TypeError for a non-string,
\* ValueError for a string in another format
strptime_date(date_str) ==
    IF date_str[1] # "str" THEN [exc |-> "TypeError"]
    ELSE IF date_str[2] # "%Y-%m-%d" THEN [exc |-> "ValueError"]
    ELSE [exc |-> "none", date |-> date_str[3]]

\* all([doctor_id, service_id, date_str]): an absent key (None) and 0 are false
all(doctor_id, service_id, date_str) ==
    doctor_id # 0 /\ service_id # 0 /\ date_str # NoDate

Response(status, body) == [status |-> status, body |-> body]

\* api_get_slots: an exception the handler does not catch is Flask's 500 page
api_get_slots(data) ==
    LET doctor_id == data.doctor_id
        service_id == data.service_id
        date_str == data.date
    IN  IF ~ all(doctor_id, service_id, date_str)
        THEN Response(400, [error |-> "Faltan datos"])
        ELSE LET parsed == strptime_date(date_str)
             IN  IF parsed.exc = "ValueError"
                 THEN Response(400, [error |-> "Formato de fecha inválido"])
                 ELSE IF parsed.exc = "TypeError"
                 THEN Response(500, [html |-> "Internal Server Error"])
                 ELSE IF service_id \notin DOMAIN Service
                 THEN Response(404, [error |-> "Servicio no encontrado"])
                 ELSE Response(200,
                               [slots |-> get_available_slots(doctor_id, parsed.date,
                                                              Service[service_id])])

\* one request to /api/slots
ApiGetSlots(data) ==
    /\ last' = [op |-> "api_get_slots", data |-> data, response |-> api_get_slots(data)]
    /\ UNCHANGED <<user, work_schedule, appointment, patient, req, concurrent>>

ApiInit ==
    /\ user = Doctors
    /\ work_schedule = SeedSchedule
    /\ appointment \in AppointmentTables
    /\ patient = {}
    /\ req = [r \in R |-> Idle]
    /\ concurrent = {}
    /\ last = [op |-> "none"]

ApiNext == \E data \in RequestBodies : ApiGetSlots(data)

SpecApi == ApiInit /\ [][ApiNext]_vars

IsApiCall == last.op = "api_get_slots"

\* the request lacks a field, or its date is not a YYYY-MM-DD string, or its service
\* is in no row of the service table
BadSlotsRequest ==
    \/ last.data.doctor_id = NoDoctor
    \/ last.data.service_id = NoService
    \/ last.data.date = NoDate
    \/ last.data.date[1] # "str"
    \/ last.data.date[2] # "%Y-%m-%d"
    \/ last.data.service_id \notin DOMAIN Service

(* C18: the slots endpoint answers with an error object and a 4xx status, and no
   slots, when doctor_id, service_id or date is missing, when the date is not a
   YYYY-MM-DD string, or when the service does not exist; in every other case it
   answers 200 with the slot list. *)
SlotsEndpointErrorsAre4xx ==
    IsApiCall =>
        /\ BadSlotsRequest =>
               /\ last.response.status \in 400..499
               /\ DOMAIN last.response.body = {"error"}
        /\ ~ BadSlotsRequest =>
               /\ last.response.status = 200
               /\ DOMAIN last.response.body = {"slots"}

(* C19: a slots request that names a doctor id of no user, and is well-formed
   otherwise, is answered with a structured error, never with a success response
   such as an empty slot list. *)
UnknownDoctorIsError ==
    (/\ IsApiCall
     /\ last.data.doctor_id # NoDoctor
     /\ last.data.doctor_id \notin user
     /\ last.data.service_id \in DOMAIN Service
     /\ strptime_date(last.data.date).exc = "none") =>
        /\ last.response.status # 200
        /\ DOMAIN last.response.body = {"error"}

-----------------------------------------------------------------------------
(* The work_schedule table from an empty database: seed(), the admin's "new doctor"
   form and the schedule editor.  A user is named by the id seed() would give it. *)

\* seed(): Monday to Friday, 09:00 - 17:00, active, for a doctor it has just created
SeedRows(doctor_id) ==
    [i \in 1..5 |-> ScheduleRow(doctor_id, i - 1, 9 * 60, 17 * 60, TRUE)]

\* seed(): a doctor whose username exists already is skipped, schedule included
Seed ==
    /\ user' = user \cup Doctors
    /\ work_schedule' = work_schedule
                            \o (IF 1 \notin user THEN SeedRows(1) ELSE <<>>)
                            \o (IF 2 \notin user THEN SeedRows(2) ELSE <<>>)
    /\ UNCHANGED <<appointment, patient, req, concurrent, last>>

\* admin_doctors_new: a User and a DoctorProfile, no WorkSchedule row
AdminDoctorsNew(username) ==
    /\ user' = user \cup {username}
    /\ UNCHANGED <<work_schedule, appointment, patient, req, concurrent, last>>

\* datetime.strptime(s, '%H:%M').time(): minutes since 00:00, ValueError otherwise
strptime_time(str) ==
    IF /\ Len(str) = 5
       /\ str[3] = ":"
       /\ str[1] * 10 + str[2] <= 23
       /\ str[4] * 10 + str[5] <= 59
    THEN [exc |-> "none", time |-> (str[1] * 10 + str[2]) * 60 + str[4] * 10 + str[5]]
    ELSE [exc |-> "ValueError"]

\* the three fields the form carries for one day
DayFields(active, start_str, end_str) ==
    [active |-> active, start_str |-> start_str, end_str |-> end_str]

\* box unchecked
DayOff == DayFields(FALSE, <<0, 9, ":", 0, 0>>, <<1, 7, ":", 0, 0>>)

\* 08:00 - 12:00
DayMorning == DayFields(TRUE, <<0, 8, ":", 0, 0>>, <<1, 2, ":", 0, 0>>)

\* box unchecked; 08:00 - 12:00; 10:00 - 09:00; a start that is not HH:MM; no end
DayInputs ==
    {DayOff, DayMorning,
     DayFields(TRUE, <<1, 0, ":", 0, 0>>, <<0, 9, ":", 0, 0>>),
     DayFields(TRUE, <<0, 9, "h", 0, 0>>, <<1, 7, ":", 0, 0>>),
     DayFields(TRUE, <<0, 9, ":", 0, 0>>, <<>>)}

\* a submitted form: Monday takes every input, Tuesday two, the other days are off
ScheduleForms ==
    {[day \in 0..6 |-> IF day = 0 THEN a ELSE IF day = 1 THEN b ELSE DayOff] :
         a \in DayInputs, b \in {DayOff, DayMorning}}

\* sched_map = {s.day_of_week: s for s in schedules}: the row's position, 0 for none
sched_map(table, id) ==
    [day \in 0..6 |->
        LET rows == {i \in 1..Len(table) :
                        table[i].doctor_id = id /\ table[i].day_of_week = day}
        IN  IF rows = {} THEN 0 ELSE CHOOSE i \in rows : \A j \in rows : j <= i]

\* faulty variant: a row is created for every active day
NeedsNewRowAlways(s) == TRUE

\* if not s
NeedsNewRow(s) == s = 0

\* faulty variant: switching a day off also wipes the row's times
SubmitDayClearingTimes(table, s, id, day, fields) ==
    IF fields.active /\ fields.start_str # <<>> /\ fields.end_str # <<>>
    THEN LET start_t == strptime_time(fields.start_str)
             end_t == strptime_time(fields.end_str)
         IN  IF start_t.exc = "ValueError" \/ end_t.exc = "ValueError"
             THEN table
             ELSE IF NeedsNewRow(s)
             THEN Append(table, ScheduleRow(id, day, start_t.time, end_t.time, TRUE))
             ELSE [table EXCEPT ![s].start_time = start_t.time,
                                ![s].end_time = end_t.time,
                                ![s].is_active = TRUE]
    ELSE IF s # 0
    THEN [table EXCEPT ![s].is_active = FALSE, ![s].start_time = 0, ![s].end_time = 0]
    ELSE table

\* the body of `for day in range(7)` for one day
SubmitDay(table, s, id, day, fields) ==
    IF fields.active /\ fields.start_str # <<>> /\ fields.end_str # <<>>
    THEN LET start_t == strptime_time(fields.start_str)
             end_t == strptime_time(fields.end_str)
         IN  IF start_t.exc = "ValueError" \/ end_t.exc = "ValueError"
             THEN table
             ELSE IF NeedsNewRow(s)
             THEN Append(table, ScheduleRow(id, day, start_t.time, end_t.time, TRUE))
             ELSE [table EXCEPT ![s].start_time = start_t.time,
                                ![s].end_time = end_t.time,
                                ![s].is_active = TRUE]
    ELSE IF s # 0
    THEN [table EXCEPT ![s].is_active = FALSE]
    ELSE table

\* for day in range(7), from `day` on
RECURSIVE SubmitDays(_, _, _, _, _)
SubmitDays(table, map, id, form, day) ==
    IF day = 7
    THEN table
    ELSE SubmitDays(SubmitDay(table, map[day], id, day, form[day]), map, id, form, day + 1)

\* admin_doctors_schedule, POST: 404 for an unknown user, else the seven days and
\* the commit
AdminDoctorsSchedule(id, form) ==
    /\ IF id \notin user
       THEN UNCHANGED work_schedule
       ELSE work_schedule' =
                SubmitDays(work_schedule, sched_map(work_schedule, id), id, form, 0)
    /\ UNCHANGED <<user, appointment, patient, req, concurrent, last>>

ScheduleInit ==
    /\ user = {}
    /\ work_schedule = <<>>
    /\ appointment = <<>>
    /\ patient = {}
    /\ req = [r \in R |-> Idle]
    /\ concurrent = {}
    /\ last = [op |-> "none"]

ScheduleNext ==
    \/ Seed
    \/ \E username \in Doctors : AdminDoctorsNew(username)
    \/ \E id \in Doctors, form \in ScheduleForms : AdminDoctorsSchedule(id, form)

SpecSchedule == ScheduleInit /\ [][ScheduleNext]_vars

(* C20: after any sequence of schedule-editor submissions and seeding, from an
   empty schedule table, at most one WorkSchedule row with is_active = true exists
   for each (doctor, day_of_week). *)
AtMostOneActivePerDoctorDay ==
    \A i, j \in 1..Len(work_schedule) :
        (/\ work_schedule[i].doctor_id = work_schedule[j].doctor_id
         /\ work_schedule[i].day_of_week = work_schedule[j].day_of_week
         /\ work_schedule[i].is_active
         /\ work_schedule[j].is_active)
        => i = j

\* both doctors seeded, the editor has rewritten a seeded Monday to 08:00 - 12:00 and
\* switched a seeded row off
AtMostOneActivePerDoctorDayWitness ==
    /\ Len(work_schedule) = 10
    /\ \E i, j \in 1..Len(work_schedule) :
           /\ work_schedule[i].doctor_id = work_schedule[j].doctor_id
           /\ work_schedule[i].day_of_week = 0
           /\ work_schedule[i].is_active
           /\ work_schedule[i].start_time = 8 * 60
           /\ ~ work_schedule[j].is_active


(* C21: after any sequence of schedule-editor submissions, every WorkSchedule row
   with is_active = true has start_time < end_time. *)
ActiveRowsStartBeforeEnd ==
    \A i \in 1..Len(work_schedule) :
        work_schedule[i].is_active
        => work_schedule[i].start_time < work_schedule[i].end_time

\* the day is submitted as not active, or without both of its times
SubmittedOff(fields) ==
    ~ fields.active \/ fields.start_str = <<>> \/ fields.end_str = <<>>

(* C22: the schedule editor never deletes a WorkSchedule row; a day submitted as
   not active, or without both times, leaves the existing row with
   is_active = false and its start_time, end_time, doctor_id and day_of_week
   as they were, and creates no row when none existed. *)
EditorSwitchesOffWithoutDeleting ==
    [][\A id \in Doctors, form \in ScheduleForms :
           AdminDoctorsSchedule(id, form) =>
               /\ Len(work_schedule') >= Len(work_schedule)
               /\ \A i \in 1..Len(work_schedule) :
                      /\ work_schedule'[i].doctor_id = work_schedule[i].doctor_id
                      /\ work_schedule'[i].day_of_week = work_schedule[i].day_of_week
               /\ \A day \in 0..6 :
                      SubmittedOff(form[day]) =>
                          /\ \A i \in 1..Len(work_schedule) :
                                 (/\ work_schedule[i].doctor_id = id
                                  /\ work_schedule[i].day_of_week = day)
                                 => work_schedule'[i] =
                                        [work_schedule[i] EXCEPT !.is_active = FALSE]
                          /\ \A i \in (Len(work_schedule) + 1)..Len(work_schedule') :
                                 ~ (/\ work_schedule'[i].doctor_id = id
                                    /\ work_schedule'[i].day_of_week = day)]_vars

\* a row the editor set to 08:00 - 12:00 and later switched off keeps those times
EditorSwitchesOffWithoutDeletingWitness ==
    \E i \in 1..Len(work_schedule) :
        /\ ~ work_schedule[i].is_active
        /\ work_schedule[i].start_time = 8 * 60
        /\ work_schedule[i].end_time = 12 * 60

-----------------------------------------------------------------------------
(* C23: confirmar_cita with a token that is invalid, expired, or that no
   appointment carries answers 400 and changes no appointment's status; with a
   valid unexpired token that an appointment carries, the answer is 200 and that
   appointment (the first that carries it) becomes confirmada, no other changes. *)
ConfirmationNeedsValidMatchingToken ==
    [][\A token \in Tokens, expired \in BOOLEAN :
           ConfirmarCita(token, expired) =>
               LET genuine == \E email \in Emails :
                                  token = generate_confirmation_token(email)
                   matches == {i \in 1..Len(appointment) :
                                  appointment[i].confirmation_token = token}
               IN  IF expired \/ ~ genuine \/ matches = {}
                   THEN /\ last'.status = 400
                        /\ appointment' = appointment
                   ELSE /\ last'.status = 200
                        /\ Len(appointment') = Len(appointment)
                        /\ \E i \in matches :
                               /\ appointment'[i].status = Confirmada
                               /\ \A j \in 1..Len(appointment) \ {i} :
                                      appointment'[j] = appointment[j]]_vars

\* one booking has been confirmed, and a later request was refused while another
\* booking is still pending
ConfirmationNeedsValidMatchingTokenWitness ==
    /\ last.op = "confirmar_cita"
    /\ last.status = 400
    /\ \E i, j \in 1..Len(appointment) :
           /\ appointment[i].status = Confirmada
           /\ appointment[j].status = Pendiente

-----------------------------------------------------------------------------
(* get_available_slots on databases that differ in the rows of other doctors *)

\* doctor 1's 09:30 appointment, the same appointment for doctor 2 and for no
\* doctor, and doctor 1's at 09:00
IsolationRows ==
    {BaseRow, [BaseRow EXCEPT !.doctor_id = 2], [BaseRow EXCEPT !.doctor_id = NoDoctor],
     [BaseRow EXCEPT !.start_time = combine(0, 9 * 60)]}

IsolationTables == UNION {[1..n -> IsolationRows] : n \in 0..MaxAppts}

\* Monday rows: doctor 1 none or 09:00-10:30, doctor 2 none or 09:00-10:00, active
\* or not
IsolationSchedules ==
    {own \o other :
        own \in {<<>>, <<ScheduleRow(1, 0, 9 * 60, 10 * 60 + 30, TRUE)>>},
        other \in {<<>>, <<ScheduleRow(2, 0, 9 * 60, 10 * 60, TRUE)>>,
                   <<ScheduleRow(2, 0, 9 * 60, 10 * 60, FALSE)>>}}

IsolationInit ==
    /\ user = Doctors
    /\ work_schedule \in IsolationSchedules
    /\ appointment \in IsolationTables
    /\ patient = {}
    /\ req = [r \in R |-> Idle]
    /\ concurrent = {}
    /\ last = [op |-> "none"]

\* the two tables as other requests may have left them
AnotherState ==
    /\ work_schedule' \in IsolationSchedules
    /\ appointment' \in IsolationTables
    /\ UNCHANGED <<user, patient, req, concurrent, last>>

IsolationNext ==
    \/ \E d \in Doctors, date \in {0, 6}, dur \in CallDurations :
           CallGetAvailableSlots(d, date, dur)
    \/ AnotherState

SpecIsolation == IsolationInit /\ [][IsolationNext]_vars

\* the rows of a table that belong to a doctor, in table order
OwnRows(table, doctor_id) == SelectSeq(table, LAMBDA row : row.doctor_id = doctor_id)

(* C24: doctor isolation: for two states that agree on doctor D's WorkSchedule
   rows and on D's appointments, get_available_slots(D, date, duration) returns
   the same list, whatever appointments (including ones with no doctor) and
   schedules exist for other doctors. *)
DoctorIsolation ==
    [][\A d \in Doctors, date \in {0, 6}, dur \in CallDurations :
           (/\ OwnRows(work_schedule', d) = OwnRows(work_schedule, d)
            /\ OwnRows(appointment', d) = OwnRows(appointment, d))
           => get_available_slots(d, date, dur)' = get_available_slots(d, date, dur)]_vars

\* doctor 1 was offered 09:30, and in the present tables, where the same call
\* returns the same list, doctor 2 and an appointment without doctor hold 09:30
DoctorIsolationWitness ==
    /\ IsSlotsCall
    /\ last.doctor_id = 1
    /\ last.result = get_available_slots(1, last.date_obj, last.duration_minutes)
    /\ \E i \in 1..Len(last.result) : last.result[i] = <<0, 9, ":", 3, 0>>
    /\ \E i, j \in 1..Len(appointment) :
           /\ appointment[i].doctor_id = NoDoctor
           /\ appointment[j].doctor_id = 2

-----------------------------------------------------------------------------
(* The slot generator and the validator side by side: doctor 2 works Monday
   09:00-10:00, doctor 1 not at all or Monday 09:00-17:00; every appointment
   table; calls for the Monday. *)

AgreeSchedules ==
    {ws \in ScheduleTables :
        \A r \in 1..Len(ws) : ws[r].doctor_id = 1 =>
            (ws[r].is_active /\ ws[r].end_time = 17 * 60)}

AgreeInit ==
    /\ user = Doctors
    /\ work_schedule \in AgreeSchedules
    /\ appointment \in AppointmentTables
    /\ patient = {}
    /\ req = [r \in R |-> Idle]
    /\ concurrent = {}
    /\ last = [op |-> "none"]

AgreeNext ==
    \/ \E d \in Doctors, dur \in CallDurations : CallGetAvailableSlots(d, 0, dur)
    \/ \E start \in CheckStarts : CallCheckAvailability(1, start, 30)

SpecAgree == AgreeInit /\ [][AgreeNext]_vars

(* C25: every slot start that get_available_slots returns for a doctor, date and
   duration is accepted by check_availability (True) for the same start time and
   duration, on the same appointment table. *)
ReturnedSlotsPassValidator ==
    IsSlotsCall =>
        \A i \in 1..Len(last.result) :
            check_availability(1, SlotStart(i), last.duration_minutes)

(* C26: for a doctor with an active schedule and a start t = start_work + 15 k with
   t + duration <= end_work, if check_availability(t, duration) is True then t is
   in the list get_available_slots returns for that doctor, date and duration. *)
ValidatorAtLeastAsStrict ==
    (IsSlotsCall /\ HasWindow) =>
        \A t \in Grid :
            check_availability(1, t, last.duration_minutes) => t \in Returned

\* the validator accepts one candidate, which is returned although a cancelled
\* appointment lies over it, and refuses another
ValidatorAtLeastAsStrictWitness ==
    /\ IsSlotsCall
    /\ HasWindow
    /\ \E t, u \in Grid :
           /\ check_availability(1, t, last.duration_minutes)
           /\ t \in Returned
           /\ \E i \in 1..Len(appointment) :
                  /\ appointment[i].status = Cancelada
                  /\ SpecOverlaps(t, t + last.duration_minutes,
                                  appointment[i].start_time, SpecEndTime(appointment[i]))
           /\ ~ check_availability(1, u, last.duration_minutes)

(* C28: every slot get_available_slots returns starts at start_work plus a whole
   multiple of 15 minutes, whatever the requested duration and the start times and
   durations of the existing appointments. *)
SlotsOnQuarterHourGrid ==
    IsSlotsCall =>
        \A i \in 1..Len(last.result) :
            /\ HasWindow
            /\ SlotStart(i) >= StartWork
            /\ (SlotStart(i) - StartWork) % 15 = 0

\* a 45-minute request and a fetched appointment 09:40 - 10:10, off the grid: the
\* first slot after it is 10:15, not 10:10
SlotsOnQuarterHourGridWitness ==
    /\ IsSlotsCall
    /\ HasWindow
    /\ last.duration_minutes = 45
    /\ \E i \in Fetched :
           /\ appointment[i].start_time = CallDay + 9 * 60 + 40
           /\ SpecEndTime(appointment[i]) = CallDay + 10 * 60 + 10
    /\ CallDay + 10 * 60 + 15 \in Returned
    /\ CallDay + 10 * 60 \notin Returned
-----------------------------------------------------------------------------
(* Bookings and confirmations together with the schedule editor: the admin moves
   the start of doctor 1's Monday from 09:00 to 09:30. *)

\* 09:30 - 17:00
DayLate == DayFields(TRUE, <<0, 9, ":", 3, 0>>, <<1, 7, ":", 0, 0>>)

LateStartForms == {[day \in 0..6 |-> IF day = 0 THEN DayLate ELSE DayOff]}

\* the booking forms of one patient for doctor 1
BookingForms == {form \in Forms : form.doctor_id = 1 /\ form.email = "ana@example.com"}

BookingNext ==
    \/ \E r \in R, form \in BookingForms : ReservarRead(r, form)
    \/ \E r \in R : ReservarCommit(r)
    \/ \E expired \in BOOLEAN :
           ConfirmarCita(generate_confirmation_token("ana@example.com"), expired)
    \/ \E form \in LateStartForms : AdminDoctorsSchedule(1, form)

SpecBooking == Init /\ [][BookingNext]_vars

\* the date of appointment i
BookedDate(i) == appointment[i].start_time \div MinutesPerDay

\* appointment i starts inside the window its doctor has, as the schedule stands,
\* on the appointment's date
InsideWindow(i) ==
    \E r \in 1..Len(work_schedule) :
        /\ work_schedule[r].doctor_id = appointment[i].doctor_id
        /\ work_schedule[r].day_of_week = weekday(BookedDate(i))
        /\ work_schedule[r].is_active
        /\ combine(BookedDate(i), work_schedule[r].start_time) <= appointment[i].start_time
        /\ appointment[i].start_time < combine(BookedDate(i), work_schedule[r].end_time)

\* a call for the doctor and date of appointment i returns a slot that overlaps it
OfferedOver(i, dur) ==
    LET result == get_available_slots(appointment[i].doctor_id, BookedDate(i), dur)
    IN  \E k \in 1..Len(result) :
            LET t == combine(BookedDate(i), ParseHHMM(result[k]))
            IN  SpecOverlaps(t, t + dur, appointment[i].start_time,
                             SpecEndTime(appointment[i]))

(* C27, as stated: once an appointment has been committed at a start inside its
   doctor's working window and is not offered, every later call for the doctor
   and date returns no slot that overlaps it, as long as it is not cancelled. *)
BookedSlotStaysBlocked ==
    [][\A i \in 1..Len(appointment), dur \in CallDurations :
           (/\ appointment[i].status # Cancelada
            /\ appointment'[i].status # Cancelada
            /\ InsideWindow(i)
            /\ ~ OfferedOver(i, dur))
           => ~ OfferedOver(i, dur)']_vars

(* C27, amended: in every state, for every appointment that is not cancelled and
   starts inside the window its doctor has at that moment, a call for the doctor
   and date returns no slot that overlaps the appointment, the start itself
   included. *)
BookedSlotsNotOffered ==
    \A i \in 1..Len(appointment), dur \in CallDurations :
        (appointment[i].status # Cancelada /\ InsideWindow(i)) => ~ OfferedOver(i, dur)

\* doctor 1 is booked Monday 09:00 inside the window, and the list for that day now
\* starts at 09:30
BookedSlotsNotOfferedWitness ==
    /\ \E r \in R : req[r].outcome = "success_booking"
    /\ \E i \in 1..Len(appointment) :
           /\ appointment[i].doctor_id = 1
           /\ appointment[i].start_time = combine(0, 9 * 60)
           /\ InsideWindow(i)
    /\ get_available_slots(1, 0, 30) # <<>>
    /\ Head(get_available_slots(1, 0, 30)) = <<0, 9, ":", 3, 0>>

====
